---- MODULE Spec2Model ----
(***************************************************************************)
(* Model of dlt.train.FisherGANTrainer (src/dlt/train/fishergan.py): the   *)
(* discriminator step d_step, the generator step g_step, and the scheduler *)
(* (run_step / set_mode of the base trainer) that dispatches to them.      *)
(*                                                                         *)
(* Numbers.  Critic outputs are integers.  A batch statistic is a rational *)
(* with denominator Unit = 2 * BatchSize and is stored as its numerator,   *)
(* so that the batch mean and the factor 0.5 are exact.  d_loss, a product *)
(* of two such quantities, is stored as a numerator over 2 * Unit^2.       *)
(***************************************************************************)
EXTENDS Integers, Sequences, FiniteSets, TLC

\* ---------------------------------------------------------------- bounds
BatchSize == 1        \* samples per mini-batch
MaxCalls  == 3        \* direct calls of d_step / g_step in one run
MaxRuns   == 4        \* calls of run_step in one run
MaxDIter  == 2        \* d_iter ranges over 1..MaxDIter

Vals    == {0, 2}     \* critic outputs
Batches == [1..BatchSize -> Vals]
Unit    == 2 * BatchSize
None    == [none |-> TRUE]
Rhos    == {1, 2}     \* values of rho
ExtraLossVals == {3}  \* value of add_loss(prediction, real), over 2*Unit^2

VARIABLES
  training,        \* self.training (base trainer)
  d_iter,          \* self.d_iter
  rho,             \* self.rho
  add_loss,        \* TRUE iff self.add_loss is configured
  d_iter_counter,  \* self.d_iter_counter
  alpha,           \* self.alpha: None or a tensor (numerator over Unit)
  alpha_grad,      \* self.alpha.grad: None or a tensor
  d_requires_grad, \* requires_grad of the discriminator's parameters
  g_requires_grad, \* requires_grad of the generator's parameters
  d_params,        \* number of updates d_optimizer has applied
  g_params,        \* number of updates g_optimizer has applied
  last,            \* observation of the last step executed
  kinds,           \* step kinds executed by run_step, in order ("D", "G",
                   \* or "D-raised" for a discriminator step that raised)
  ncalls           \* number of step calls so far

vars == <<training, d_iter, rho, add_loss, d_iter_counter, alpha,
          alpha_grad, d_requires_grad, g_requires_grad, d_params, g_params,
          last, kinds, ncalls>>

\* ------------------------------------------------------------ arithmetic
RECURSIVE SumSeq(_)
SumSeq(s) == IF s = <<>> THEN 0 ELSE Head(s) + SumSeq(Tail(s))

Squares(s) == [i \in DOMAIN s |-> s[i] * s[i]]

\* tensor.mean() of a batch, as a 0-dim tensor holding a numerator over Unit
Tensor(n) == [data |-> n]
Mean(s) == Tensor(2 * SumSeq(s))

\* _get_scalar_value: the Python float held by a 0-dim tensor
GetScalarValue(t) == t.data

\* Python float division: ZeroDivisionError on a zero divisor.  The divisor
\* is the square root of radicand/Unit, kept symbolically.
ZeroDivisionError == "ZeroDivisionError"
PyDiv(num, radicand) ==
  [raised |-> (radicand = 0), num |-> num, sqrt_den |-> radicand]

\* ------------------------------------------------------------- registry
TrainingLosses == {"ipm_enum", "ipm_denom", "ipm_ratio", "d_loss", "constraint",
                   "epf", "eqf", "epf2", "eqf2", "lagrange"}
ValidationLosses == {"g_loss"}
Losses(mode) == IF mode THEN TrainingLosses ELSE ValidationLosses

NoMetrics == [k \in {} |-> 0]

NoStep == [kind |-> "none", outcome |-> "none", training |-> TRUE,
           metrics |-> NoMetrics,
           d_rg |-> TRUE, g_rg |-> TRUE, gen_tracked |-> FALSE,
           g_zero |-> 0, backward |-> 0,
           alpha_before |-> None, grad_before |-> None, grad |-> 0,
           constraint |-> 0, moment |-> 0, extra |-> 0,
           counter_before |-> 0]

\* State after __init__; d_iter is left to the two initial predicates below.
\* The base trainer starts in training mode with d_iter_counter = 0; the
\* parameters of both networks require gradients, as a module's do by default.
Constructed ==
  /\ training = TRUE
  /\ rho \in Rhos
  /\ add_loss \in BOOLEAN
  /\ d_iter_counter = 0
  /\ alpha = None
  /\ alpha_grad = None
  /\ d_requires_grad = TRUE
  /\ g_requires_grad = TRUE
  /\ d_params = 0
  /\ g_params = 0
  /\ last = NoStep
  /\ kinds = <<>>
  /\ ncalls = 0

\* d_iter=1 is the constructor's default
Init == Constructed /\ d_iter = 1

InitSched == Constructed /\ d_iter \in 1..MaxDIter


\* ------------------------------------------------------- d_step, pieces
\* mutant: d_step leaves the discriminator's flags as it finds them
DiscFlagInDStep_Keep(flag) == flag

\* for p in self.discriminator.parameters(): p.requires_grad = True
DiscFlagInDStep(flag) == TRUE

\* mutant: alpha is re-created on every discriminator step
AlphaLazyInit_Always(a) == Tensor(0)

\* if self.alpha is None: self.alpha = Variable(g_input.new([0]), ...)
AlphaLazyInit(a) == IF a = None THEN Tensor(0) ELSE a

\* prediction = Variable(generator(...).data): in both branches the
\* generator's forward pass is untracked and its output detached
GenTrackedInDStep(ung) == IF ung THEN FALSE ELSE FALSE

\* constraint = (1 - (0.5*epf2 + 0.5*eqf2))
SecondMoment(epf2, eqf2) == (epf2.data + eqf2.data) \div 2
Constraint(epf2, eqf2) == Tensor(Unit - SecondMoment(epf2, eqf2))

\* d_loss = -(epf - eqf + self.alpha*constraint - self.rho/2 * constraint**2)
DLoss(epf, eqf, a, c, r) ==
  Tensor(-(2 * Unit * (epf.data - eqf.data) + 2 * a.data * c.data
           - r * c.data * c.data))

\* if self.add_loss: d_loss = d_loss + self.add_loss(prediction, real)
DLossWithExtra(dl, cfg, ex) == IF cfg THEN Tensor(dl.data + ex) ELSE dl

\* d_loss.backward(): accumulates d(d_loss)/d(alpha) = -constraint in alpha.grad
AlphaGradAfterBackward(g, c) ==
  Tensor((IF g = None THEN 0 ELSE g.data) + (-(c.data)))

\* self.alpha.data += self.rho * self.alpha.grad.data
AlphaAfterUpdate(a, g, r) == Tensor(a.data + r * g.data)

\* mutant: alpha's gradient is not cleared
AlphaGradAfterZero_Keep(g) == g

\* self.alpha.grad.data.zero_()
AlphaGradAfterZero(g) == Tensor(0)

\* self.d_optimizer.step()
DParamsAfterStep(n) == n + 1

\* ipm_enum, ipm_denom (radicand of the square root), ipm_ratio
IpmEnum(epf, eqf) == GetScalarValue(epf) - GetScalarValue(eqf)
IpmDenomRadicand(epf2, eqf2) == (GetScalarValue(epf2) + GetScalarValue(eqf2)) \div 2
IpmRatio(enum, radicand) == PyDiv(enum, radicand)

\* mutant: the constraint residual itself is reported
ReportedConstraint_Raw(c) == GetScalarValue(c)

\* 'constraint': 1 - _get_scalar_value(constraint.data)
ReportedConstraint(c) == Unit - GetScalarValue(c)

\* 'lagrange': _get_scalar_value(self.alpha.data), read after the update
ReportedLagrange(a_old, a_new) == GetScalarValue(a_new)

\* 'd_loss': -_get_scalar_value(d_loss.data)
ReportedDLoss(dl) == -GetScalarValue(dl)

\* mutant: the multiplier is not reported
RetLosses_NoLagrange(epf, eqf, epf2, eqf2, c, dl, a_old, a_new) ==
  [ipm_enum   |-> IpmEnum(epf, eqf),
   ipm_denom  |-> [sqrt |-> IpmDenomRadicand(epf2, eqf2)],
   ipm_ratio  |-> IpmRatio(IpmEnum(epf, eqf), IpmDenomRadicand(epf2, eqf2)),
   d_loss     |-> ReportedDLoss(dl),
   constraint |-> ReportedConstraint(c),
   epf        |-> GetScalarValue(epf),
   eqf        |-> GetScalarValue(eqf),
   epf2       |-> GetScalarValue(epf2),
   eqf2       |-> GetScalarValue(eqf2)]

RetLosses(epf, eqf, epf2, eqf2, c, dl, a_old, a_new) ==
  [ipm_enum   |-> IpmEnum(epf, eqf),
   ipm_denom  |-> [sqrt |-> IpmDenomRadicand(epf2, eqf2)],
   ipm_ratio  |-> IpmRatio(IpmEnum(epf, eqf), IpmDenomRadicand(epf2, eqf2)),
   d_loss     |-> ReportedDLoss(dl),
   constraint |-> ReportedConstraint(c),
   epf        |-> GetScalarValue(epf),
   eqf        |-> GetScalarValue(eqf),
   epf2       |-> GetScalarValue(epf2),
   eqf2       |-> GetScalarValue(eqf2),
   lagrange   |-> ReportedLagrange(a_old, a_new)]

\* mutant: the counter is not advanced
CounterAfterDStep_NoInc(c) == c

\* self.d_iter_counter += 1
CounterAfterDStep(c) == c + 1

\* --------------------------------------------------------------- d_step
\* vphi_real, vphi_fake: the critic's outputs on the real and the generated
\* batch; ex: the value of the extra loss (0 when none is configured)
d_step(vphi_real, vphi_fake, ex, use_no_grad) ==
  LET flag  == DiscFlagInDStep(d_requires_grad)
      a0    == AlphaLazyInit(alpha)
      epf   == Mean(vphi_real)
      eqf   == Mean(vphi_fake)
      epf2  == Mean(Squares(vphi_real))
      eqf2  == Mean(Squares(vphi_fake))
      c     == Constraint(epf2, eqf2)
      dl    == DLossWithExtra(DLoss(epf, eqf, a0, c, rho), add_loss, ex)
      g1    == AlphaGradAfterBackward(alpha_grad, c)
      a1    == AlphaAfterUpdate(a0, g1, rho)
      g2    == AlphaGradAfterZero(g1)
      ratio == IpmRatio(IpmEnum(epf, eqf), IpmDenomRadicand(epf2, eqf2))
      ok    == ~ratio.raised
  IN
  /\ d_requires_grad' = flag
  /\ alpha' = a1
  /\ alpha_grad' = g2
  /\ d_params' = DParamsAfterStep(d_params)
  /\ d_iter_counter' = IF ok THEN CounterAfterDStep(d_iter_counter)
                       ELSE d_iter_counter
  /\ last' = [kind |-> "D",
              outcome |-> IF ok THEN "returned" ELSE ZeroDivisionError,
              training |-> training,
              metrics |-> IF ok THEN RetLosses(epf, eqf, epf2, eqf2, c, dl, a0, a1)
                          ELSE NoMetrics,
              d_rg |-> flag, g_rg |-> g_requires_grad,
              gen_tracked |-> GenTrackedInDStep(use_no_grad),
              g_zero |-> 0, backward |-> 1,
              alpha_before |-> alpha,
              grad_before |-> alpha_grad, grad |-> g1.data,
              constraint |-> c.data, moment |-> SecondMoment(epf2, eqf2),
              extra |-> IF add_loss THEN ex ELSE 0,
              counter_before |-> d_iter_counter]
  /\ UNCHANGED <<training, d_iter, rho, add_loss, g_requires_grad, g_params>>

\* ------------------------------------------------------- g_step, pieces
\* for p in self.discriminator.parameters(): p.requires_grad = False
DiscFlagInGStep(flag) == FALSE

\* mutant: the generator optimizer is applied in either mode
GOptStepsInGStep_Always(mode) == 1

\* self.generator.zero_grad() ... error.backward(); self.g_optimizer.step()
\* only under `if self.training`
GOptStepsInGStep(mode) == IF mode THEN 1 ELSE 0
GZeroGradInGStep(mode) == IF mode THEN 1 ELSE 0
GBackwardInGStep(mode) == IF mode THEN 1 ELSE 0
GenTrackedInGStep(mode, ung) == IF mode THEN TRUE ELSE (IF ung THEN FALSE ELSE FALSE)

\* error = - self.discriminator(prediction).mean()
GError(vphi_fake) == Tensor(-(Mean(vphi_fake).data))

\* {'g_loss': _get_scalar_value(error.data)}
GLosses(err) == [g_loss |-> GetScalarValue(err)]

\* --------------------------------------------------------------- g_step
g_step(vphi_fake, use_no_grad) ==
  LET flag == DiscFlagInGStep(d_requires_grad)
      err  == GError(vphi_fake)
  IN
  /\ d_requires_grad' = flag
  /\ g_params' = g_params + GOptStepsInGStep(training)
  /\ last' = [kind |-> "G", outcome |-> "returned", training |-> training,
              metrics |-> GLosses(err),
              d_rg |-> flag, g_rg |-> g_requires_grad,
              gen_tracked |-> GenTrackedInGStep(training, use_no_grad),
              g_zero |-> GZeroGradInGStep(training),
              backward |-> GBackwardInGStep(training),
              alpha_before |-> alpha,
              grad_before |-> alpha_grad, grad |-> 0,
              constraint |-> 0, moment |-> 0, extra |-> 0,
              counter_before |-> d_iter_counter]
  /\ UNCHANGED <<training, d_iter, rho, add_loss, d_iter_counter,
                 alpha, alpha_grad, g_requires_grad, d_params>>

\* ------------------------------------------------------------ scheduler
\* Decision rule of run_step: a discriminator step if the counter is not a
\* multiple of d_iter or no discriminator step was taken yet (first call),
\* otherwise a generator step.
IsDiscriminatorTurn(counter, target) == counter % target # 0 \/ counter = 0

ExtraChoices == IF add_loss THEN ExtraLossVals ELSE {0}

\* run_step(generator_input, real_batch)
RunStep ==
  /\ ncalls < MaxRuns
  /\ \E vr \in Batches, vf \in Batches, ex \in ExtraChoices, ung \in BOOLEAN :
       IF IsDiscriminatorTurn(d_iter_counter, d_iter)
       THEN d_step(vr, vf, ex, ung)
       ELSE g_step(vf, ung)
  /\ kinds' = Append(kinds, IF last'.outcome = "returned" THEN last'.kind
                             ELSE "D-raised")
  /\ ncalls' = ncalls + 1

\* set_mode(Training | Evaluation)
SetMode ==
  /\ \E m \in BOOLEAN : training' = m
  /\ training' # training
  /\ UNCHANGED <<d_iter, rho, add_loss, d_iter_counter, alpha,
                 alpha_grad, d_requires_grad, g_requires_grad, d_params,
                 g_params, last, kinds, ncalls>>

\* d_step called on the trainer
DStep ==
  /\ ncalls < MaxCalls
  /\ \E vr \in Batches, vf \in Batches, ex \in ExtraChoices, ung \in BOOLEAN :
       d_step(vr, vf, ex, ung)
  /\ ncalls' = ncalls + 1
  /\ UNCHANGED kinds

\* g_step called on the trainer
GStep ==
  /\ ncalls < MaxCalls
  /\ \E vf \in Batches, ung \in BOOLEAN : g_step(vf, ung)
  /\ ncalls' = ncalls + 1
  /\ UNCHANGED kinds

\* The two step operations called in any order, in either mode.  run_step only
\* delegates to one of them, so every run of the scheduler is among these runs.
Next == DStep \/ GStep \/ SetMode

Spec == Init /\ [][Next]_vars

\* The scheduler alone: every step is chosen by run_step.
NextSched == RunStep \/ SetMode

SpecSched == InitSched /\ [][NextSched]_vars


\* =============================================================== claims
StepTaken  == ncalls' # ncalls
DStepTaken == StepTaken /\ last'.kind = "D"
GStepTaken == StepTaken /\ last'.kind = "G"
Returned(step) == step.outcome = "returned"

\* C1: starting fresh, run_step executes d_iter discriminator steps followed
\* by exactly one generator step, repeating (as long as no step raises): the
\* i-th call is a generator step exactly when i is a multiple of d_iter + 1.
C1_ScheduleRepeats ==
  (\A i \in 1..Len(kinds) : kinds[i] # "D-raised") =>
    \A i \in 1..Len(kinds) :
      kinds[i] = IF i % (d_iter + 1) = 0 THEN "G" ELSE "D"

\* C4: the metrics map run_step returns has exactly the keys registered in
\* the loss registry for the mode the trainer is in, whichever step ran.
C4_KeysAreRegistryOfMode ==
  (kinds # <<>> /\ Returned(last)) =>
    DOMAIN last.metrics = Losses(last.training)

\* C7: a discriminator step whose second moments are both 0 (ipm_denom = 0)
\* returns normally, reports a non-finite ipm_ratio, and has incremented
\* d_iter_counter.
C7_ZeroDenomReturns ==
  (last.kind = "D" /\ last.moment = 0) =>
    /\ Returned(last)
    /\ last.metrics.ipm_ratio.sqrt_den = 0
    /\ d_iter_counter = last.counter_before + 1


\* C2: d_iter_counter increases by exactly one on each discriminator step
\* that returns, is left unchanged by every generator step in either mode,
\* and is changed by no other operation.
C2_CounterFrame ==
  [][ /\ (DStepTaken /\ Returned(last')) => d_iter_counter' = d_iter_counter + 1
      /\ GStepTaken => d_iter_counter' = d_iter_counter
      /\ ~StepTaken => d_iter_counter' = d_iter_counter ]_vars

C2_Witness == last.kind = "G" /\ ~last.training /\ d_iter_counter = 2

\* C3: alpha is absent exactly until the first discriminator step; that step
\* creates it with value 0; no later step or mode switch resets or re-creates
\* it; each discriminator step updates it exactly once (by -rho * constraint),
\* and nothing else changes it.
C3_AlphaLifecycle ==
  /\ [](alpha = None <=> d_params = 0)
  /\ [][ /\ alpha # None => alpha' # None
         /\ DStepTaken =>
              alpha'.data = (IF alpha = None THEN 0 ELSE alpha.data)
                            - rho * last'.constraint
         /\ ~DStepTaken => alpha' = alpha ]_vars

C3_Witness ==
  /\ d_params = 2 /\ g_params = 1 /\ last.kind = "D"
  /\ last.alpha_before # None /\ last.alpha_before.data # 0

\* C5: a discriminator step that returns yields a metrics map with exactly
\* the 10 discriminator keys and a generator step one with exactly {g_loss},
\* in either mode and with or without an extra loss.
C5_StepKeys ==
  /\ (last.kind = "D" /\ Returned(last)) =>
       DOMAIN last.metrics = {"ipm_enum", "ipm_denom", "ipm_ratio", "d_loss",
                              "constraint", "epf", "eqf", "epf2", "eqf2",
                              "lagrange"}
  /\ last.kind = "G" => DOMAIN last.metrics = {"g_loss"}

C5_Witness ==
  last.kind = "D" /\ Returned(last) /\ ~last.training /\ add_loss /\ g_params = 1

\* C6: a generator step in Evaluation mode zeroes no generator gradient, runs
\* no backward pass and applies no optimizer, and leaves the generator's and
\* the discriminator's parameters, alpha and d_iter_counter unchanged; the
\* generator optimizer is applied only by a generator step in Training mode,
\* exactly once per such step.
C6_EvalGStepFrame ==
  [][ /\ (GStepTaken /\ ~training) =>
           /\ last'.g_zero = 0 /\ last'.backward = 0
           /\ g_params' = g_params /\ d_params' = d_params
           /\ alpha' = alpha /\ d_iter_counter' = d_iter_counter
      /\ (GStepTaken /\ training) => g_params' = g_params + 1
      /\ g_params' # g_params => (GStepTaken /\ training) ]_vars

C6_Witness ==
  last.kind = "G" /\ ~last.training /\ g_params = 1 /\ d_params = 1

\* C8 (as claimed): the value reported under 'constraint' plus
\* 0.5*epf2 + 0.5*eqf2 of the same step equals 1.
C8_ReportedPlusMomentIsOne ==
  (last.kind = "D" /\ Returned(last)) =>
    2 * last.metrics.constraint + last.metrics.epf2 + last.metrics.eqf2 = 2 * Unit

\* C8 (amended): the value reported under 'constraint' equals
\* 0.5*epf2 + 0.5*eqf2 of the same step; it is the constraint residual used
\* in d_loss, 1 minus the reported value, that adds up to 1 with it.
C8_ReportedIsMoment ==
  (last.kind = "D" /\ Returned(last)) =>
    /\ 2 * last.metrics.constraint = last.metrics.epf2 + last.metrics.eqf2
    /\ last.constraint = Unit - last.metrics.constraint
    /\ 2 * last.constraint + last.metrics.epf2 + last.metrics.eqf2 = 2 * Unit

C8_Witness ==
  last.kind = "D" /\ Returned(last) /\ last.metrics.constraint > Unit
  /\ last.metrics.epf2 # last.metrics.eqf2

\* C9 (as claimed): during a discriminator step's pass the discriminator's
\* parameters require gradients and the generator's do not; during a
\* generator step's pass it is the inverse.  (Stated of the steps that
\* return.)
C9_FlagsToggleBothWays ==
  /\ (last.kind = "D" /\ Returned(last)) => (last.d_rg /\ ~last.g_rg)
  /\ last.kind = "G" => (~last.d_rg /\ last.g_rg)

\* C9 (amended): during a discriminator step's pass the discriminator's
\* parameters require gradients and the generator's forward pass is
\* untracked; during a generator step's pass the discriminator's parameters
\* do not require gradients; neither step changes the generator's
\* requires_grad flags, which are as constructed during both passes.
C9_DiscFlagsToggleOnly ==
  /\ [](/\ last.kind = "D" => (last.d_rg /\ ~last.gen_tracked)
        /\ last.kind = "G" => ~last.d_rg
        /\ last.kind # "none" => last.g_rg = g_requires_grad)
  /\ [][g_requires_grad' = g_requires_grad]_vars

C9_Witness ==
  last.kind = "D" /\ Returned(last) /\ g_params = 1 /\ last.d_rg /\ last.g_rg

\* C10: every discriminator step, in either mode, applies the discriminator
\* optimizer once and then sets alpha to alpha_old + rho * g, where g is the
\* gradient of this step's d_loss alone, g = -(1 - (0.5*epf2 + 0.5*eqf2));
\* alpha's gradient is cleared afterwards, and the value reported under
\* 'lagrange' is alpha after the update.
C10_DualAscent ==
  [][ DStepTaken =>
        /\ d_params' = d_params + 1
        /\ last'.grad = -(Unit - last'.moment)
        /\ alpha'.data = (IF alpha = None THEN 0 ELSE alpha.data)
                         - rho * (Unit - last'.moment)
        /\ alpha_grad' = Tensor(0)
        /\ Returned(last') =>
             /\ 2 * last'.moment = last'.metrics.epf2 + last'.metrics.eqf2
             /\ last'.metrics.lagrange = alpha'.data ]_vars

C10_Witness ==
  /\ last.kind = "D" /\ Returned(last) /\ ~last.training /\ add_loss
  /\ last.alpha_before # None /\ last.alpha_before.data # 0
  /\ last.constraint # 0 /\ last.metrics.lagrange # last.alpha_before.data

====
